---- MODULE Spec2Model ----
(***************************************************************************)
(* Model of scripts/netflix_subs.py: the SRT time codec, the parser, the   *)
(* cue and sequence validators, the repair engine (fix_timing,             *)
(* fix_line_breaks, fix_gaps, fix_entries), the cleaner (clean_entries)    *)
(* and the validate / fix / clean branches of main.                        *)
(*                                                                         *)
(* A Python str is a sequence of one-character tokens.  ASCII characters   *)
(* are written as themselves; the two non-ASCII characters the model uses  *)
(* are written by code point: "U4E2D" (a CJK ideograph) and "U3002" (the   *)
(* ideographic full stop, a member of CJK_PUNCTUATION).                    *)
(* A Python dict object lives in `heap` and lists hold references into it, *)
(* so that copying (e.copy()) and aliasing are distinguishable.            *)
(***************************************************************************)
EXTENDS Integers, Sequences, FiniteSets, TLC

VARIABLES
    pc,        \* position of the run: "start" or the name of the step done
    ms,        \* time codec: the millisecond offset given to ms_to_time
    ts,        \* time codec: the timecode text ms_to_time returned
    back,      \* time codec: time_to_ms of ts
    content,   \* parser: the text of the subtitle file
    parsed,    \* parser: outcome of parse_srt, [raised, entries]
    input,     \* engine: the cues of the caller's list as they were parsed
    heap,      \* engine: the dict objects, by reference
    entries,   \* engine: the caller's list (references into heap)
    lang,      \* engine: language code
    kids,      \* engine: --kids
    json_out,  \* engine: --json
    out        \* engine: what the command produced

vars == <<pc, ms, ts, back, content, parsed, input, heap, entries, lang, kids,
          json_out, out>>

----------------------------------------------------------------------------
(* Python str and list primitives                                          *)

NL == "\n"
SP == " "

Whitespace == {SP, NL}

CJK_PUNCTUATION ==
    {"UFF0C", "U3002", "UFF01", "UFF1F", "U3001", "UFF1B", "UFF1A", "\"",
     "UFF09", "U300B", "U3011", "U2026"}

\* ord(c) > 127
NonAscii == {"U4E2D"} \cup (CJK_PUNCTUATION \ {"\""})

DigitChars == <<"0", "1", "2", "3", "4", "5", "6", "7", "8", "9">>

IsDigit(c) == \E d \in 1..10 : DigitChars[d] = c

DigitVal(c) == (CHOOSE d \in 1..10 : DigitChars[d] = c) - 1

Slice(s, a, b) == SubSeq(s, a + 1, IF b > Len(s) THEN Len(s) ELSE b)

Min(S) == CHOOSE x \in S : \A y \in S : x <= y

Max(S) == CHOOSE x \in S : \A y \in S : y <= x

\* The first position of c in s at or after from, 0 when there is none.
Find(s, c, from) ==
    LET at == {k \in from..Len(s) : s[k] = c}
    IN  IF at = {} THEN 0 ELSE Min(at)

RECURSIVE split(_, _)
split(s, sep) ==
    LET k == Find(s, sep, 1)
    IN  IF k = 0 THEN <<s>>
        ELSE <<SubSeq(s, 1, k - 1)>> \o split(SubSeq(s, k + 1, Len(s)), sep)

RECURSIVE join(_, _)
join(sep, parts) ==
    IF Len(parts) = 0 THEN <<>>
    ELSE IF Len(parts) = 1 THEN parts[1]
    ELSE parts[1] \o <<sep>> \o join(sep, Tail(parts))

RECURSIVE lstrip(_)
lstrip(s) ==
    IF Len(s) > 0 /\ s[1] \in Whitespace THEN lstrip(Tail(s)) ELSE s

RECURSIVE rstrip(_)
rstrip(s) ==
    IF Len(s) > 0 /\ s[Len(s)] \in Whitespace
    THEN rstrip(SubSeq(s, 1, Len(s) - 1))
    ELSE s

strip(s) == rstrip(lstrip(s))

replace(s, old, new) ==
    [k \in 1..Len(s) |-> IF s[k] = old THEN new ELSE s[k]]

count(s, c) == Cardinality({k \in 1..Len(s) : s[k] = c})

RECURSIVE split_words(_)
split_words(s) ==
    LET t == lstrip(s)
        k == CHOOSE n \in 1..(Len(t) + 1) :
                 /\ n = Len(t) + 1 \/ t[n] \in Whitespace
                 /\ \A j \in 1..(n - 1) : t[j] \notin Whitespace
    IN  IF Len(t) = 0 THEN <<>>
        ELSE <<SubSeq(t, 1, k - 1)>> \o split_words(SubSeq(t, k, Len(t)))

RECURSIVE int(_)
int(s) ==
    IF Len(s) = 0 THEN 0
    ELSE int(SubSeq(s, 1, Len(s) - 1)) * 10 + DigitVal(s[Len(s)])

RECURSIVE str(_)
str(n) ==
    IF n < 10 THEN <<DigitChars[n + 1]>>
    ELSE Append(str(n \div 10), DigitChars[(n % 10) + 1])

RECURSIVE zero_pad(_, _)
zero_pad(s, width) ==
    IF Len(s) >= width THEN s ELSE zero_pad(<<"0">> \o s, width)

format_d(n, width) == zero_pad(str(n), width)

----------------------------------------------------------------------------
(* Time codec                                                              *)

\* s, ms = rest.split(','), and the sum.
time_sum(h, m, sm) ==
    int(h) * 3600000 + int(m) * 60000 + int(sm[1]) * 1000 + int(sm[2])

\* h, m, rest = ts.split(':')
time_fields(hmr) == time_sum(hmr[1], hmr[2], split(hmr[3], ","))

time_to_ms(t) == time_fields(split(t, ":"))

\* Mutant of ms_to_time: the minutes are not taken modulo the hour.
ms_to_time_unwrapped_minutes(m) ==
    LET v  == IF m < 0 THEN 0 ELSE m
    IN  format_d(v \div 3600000, 2) \o <<":">> \o format_d(v \div 60000, 2)
            \o <<":">> \o format_d((v % 60000) \div 1000, 2) \o <<",">>
            \o format_d(v % 1000, 3)

ms_to_time(m) ==
    LET v  == IF m < 0 THEN 0 ELSE m
        h  == v \div 3600000
        mi == (v % 3600000) \div 60000
        s  == (v % 60000) \div 1000
        ms_part == v % 1000
    IN  format_d(h, 2) \o <<":">> \o format_d(mi, 2) \o <<":">>
            \o format_d(s, 2) \o <<",">> \o format_d(ms_part, 3)

----------------------------------------------------------------------------
(* Rule configuration                                                      *)

LANG_CONFIG ==
    [l \in {"en", "zh", "ja", "ko", "es"} |->
        CASE l = "en" -> [max_chars |-> 42, max_cps |-> 17, max_cps_kids |-> 15]
          [] l = "zh" -> [max_chars |-> 16, max_cps |-> 9, max_cps_kids |-> 7]
          [] l = "ja" -> [max_chars |-> 13, max_cps |-> 4, max_cps_kids |-> 4]
          [] l = "ko" -> [max_chars |-> 16, max_cps |-> 12, max_cps_kids |-> 10]
          [] l = "es" -> [max_chars |-> 42, max_cps |-> 17, max_cps_kids |-> 15]]

\* LANG_CONFIG.get(lang, LANG_CONFIG['en'])
config_for(l) ==
    IF l \in DOMAIN LANG_CONFIG THEN LANG_CONFIG[l] ELSE LANG_CONFIG["en"]

TIMING == [min_ms |-> 833, max_ms |-> 7000, gap_ms |-> 83]

----------------------------------------------------------------------------
(* Text measurer                                                           *)

is_cjk(l) == l \in {"zh", "ja", "ko"}

\* re.sub(r'<[^>]+>', '', text)
RECURSIVE strip_tags(_)
strip_tags(s) ==
    IF Len(s) = 0 THEN <<>>
    ELSE LET close == Find(s, ">", 2)
         IN  IF s[1] = "<" /\ close >= 3
             THEN strip_tags(SubSeq(s, close + 1, Len(s)))
             ELSE <<s[1]>> \o strip_tags(Tail(s))

RECURSIVE cjk_width(_)
cjk_width(s) ==
    IF Len(s) = 0 THEN 0
    ELSE (IF s[1] \in NonAscii THEN 2 ELSE 1) + cjk_width(Tail(s))

\* sum(2 if ord(c) > 127 else 1 for c in text) if is_cjk(lang) else len(text)
char_sum(t, l) == IF is_cjk(l) THEN cjk_width(t) ELSE Len(t)

count_chars(text, l) ==
    char_sum(strip(replace(strip_tags(text), NL, SP)), l)

\* The quotient count / (duration_ms / 1000) is kept as the pair it is made
\* of; float('inf') is the pair with inf set.
calc_cps(text, duration_ms, l) ==
    IF duration_ms <= 0
    THEN [inf |-> TRUE, chars |-> 0, dur |-> 1]
    ELSE [inf |-> FALSE, chars |-> count_chars(text, l), dur |-> duration_ms]

\* cps > max_cps
cps_exceeds(cps, max_cps) ==
    cps.inf \/ cps.chars * 1000 > max_cps * cps.dur

----------------------------------------------------------------------------
(* Cue validator and sequence validator                                    *)

\* The line-length check of one line, chars its count_chars.
line_issue(chars, max_chars) ==
    IF chars > max_chars THEN <<<<"Line", chars, max_chars>>>> ELSE <<>>

RECURSIVE line_issues(_, _, _)
line_issues(lines, l, cfg) ==
    IF Len(lines) = 0 THEN <<>>
    ELSE line_issue(count_chars(lines[1], l), cfg.max_chars)
             \o line_issues(Tail(lines), l, cfg)

\* The checks of validate_entry, duration = end_ms - start_ms.
entry_issues(e, duration, l, cfg, max_cps) ==
    (IF duration < TIMING.min_ms
     THEN <<<<"Duration<", duration, TIMING.min_ms>>>> ELSE <<>>)
    \o (IF duration > TIMING.max_ms
        THEN <<<<"Duration>", duration, TIMING.max_ms>>>> ELSE <<>>)
    \o (IF cps_exceeds(calc_cps(e.text, duration, l), max_cps)
        THEN <<<<"CPS", max_cps>>>> ELSE <<>>)
    \o line_issues(split(e.text, NL), l, cfg)
    \o (IF count(e.text, NL) >= 2
        THEN <<<<"Has lines", count(e.text, NL) + 1>>>> ELSE <<>>)

\* An issue is its kind and the numbers of its message.
validate_entry(e, l, cfg, k) ==
    entry_issues(e, time_to_ms(e.end) - time_to_ms(e.start), l, cfg,
                 IF k THEN cfg.max_cps_kids ELSE cfg.max_cps)

\* if issues: all_issues.append((e['index'], e['start'], e['end'], issues))
entry_report(e, issues) ==
    IF issues # <<>> THEN <<<<e.index, e.start, e.end, issues>>>> ELSE <<>>

RECURSIVE entry_pass(_, _, _, _)
entry_pass(es, l, cfg, k) ==
    IF Len(es) = 0 THEN <<>>
    ELSE entry_report(es[1], validate_entry(es[1], l, cfg, k))
             \o entry_pass(Tail(es), l, cfg, k)

\* The gap check of cue e against the end of the cue before it.
gap_report(e, gap) ==
    IF gap < 0
    THEN <<<<e.index, e.start, e.end, <<<<"Overlaps", -gap>>>>>>>>
    ELSE IF 0 < gap /\ gap < TIMING.gap_ms
    THEN <<<<e.index, e.start, e.end, <<<<"Gap", gap, TIMING.gap_ms>>>>>>>>
    ELSE <<>>

RECURSIVE gap_pass(_, _)
gap_pass(es, i) ==
    IF i > Len(es) THEN <<>>
    ELSE gap_report(es[i],
                    time_to_ms(es[i].start) - time_to_ms(es[i - 1].end))
             \o gap_pass(es, i + 1)

\* `es` is the list's cues in order (the dicts the list refers to).
validate(es, l, k) ==
    entry_pass(es, l, config_for(l), k) \o gap_pass(es, 2)

----------------------------------------------------------------------------
(* Repair engine                                                           *)

\* The CJK branch: the last punctuation mark (not the first character) up to
\* which the line still fits; 0-based i of the source is position i + 1.
\* 0 stands for the source's -1.
cjk_best_break(line, l, max_chars) ==
    Max({0} \cup {p \in 2..Len(line) :
                    /\ line[p] \in CJK_PUNCTUATION
                    /\ count_chars(SubSeq(line, 1, p), l) <= max_chars})

\* result.extend([line[:best_break], line[best_break:].strip()]), or the
\* two halves when there is no such mark.
cjk_halves(line, best_break) ==
    IF best_break > 0
    THEN <<SubSeq(line, 1, best_break),
           strip(SubSeq(line, best_break + 1, Len(line)))>>
    ELSE <<SubSeq(line, 1, Len(line) \div 2),
           SubSeq(line, Len(line) \div 2 + 1, Len(line))>>

\* words = line.split(); mid = len(words) // 2
word_halves(words) ==
    <<join(SP, SubSeq(words, 1, Len(words) \div 2)),
      join(SP, SubSeq(words, Len(words) \div 2 + 1, Len(words)))>>

\* What one line of the text adds to result.
break_line(line, l, max_chars) ==
    IF count_chars(line, l) <= max_chars THEN <<line>>
    ELSE IF is_cjk(l)
    THEN cjk_halves(line, cjk_best_break(line, l, max_chars))
    ELSE word_halves(split_words(line))

RECURSIVE break_lines(_, _, _)
break_lines(lines, l, max_chars) ==
    IF Len(lines) = 0 THEN <<>>
    ELSE break_line(lines[1], l, max_chars)
             \o break_lines(Tail(lines), l, max_chars)

\* Mutant of fix_line_breaks: keeps one line, not two.
fix_line_breaks_one_line(text, l, max_chars) ==
    join(NL, Slice(break_lines(split(text, NL), l, max_chars), 0, 1))

fix_line_breaks(text, l, max_chars) ==
    join(NL, Slice(break_lines(split(text, NL), l, max_chars), 0, 2))

\* if duration < min_ms: e['end'] = ms_to_time(start_ms + min_ms)
extend_end(h, e, start_ms, end_ms) ==
    IF end_ms - start_ms < TIMING.min_ms
    THEN [h EXCEPT ![e].end = ms_to_time(start_ms + TIMING.min_ms)]
    ELSE h

\* fix_timing mutates the dict it is given: h is the heap, e the reference.
fix_timing(h, e) ==
    extend_end(h, e, time_to_ms(h[e].start), time_to_ms(h[e].end))

\* Mutant of floor_guard: only keeps the end after the start.
floor_guard_positive(new_end, prev_start) == new_end > prev_start

\* The minimum-duration floor guard of both branches of fix_gaps.
floor_guard(new_end, prev_start) == new_end > prev_start + TIMING.min_ms

\* if new_end > prev_start + TIMING['min_ms']:
\*     entries[i-1]['end'] = ms_to_time(new_end)
shorten(h, prev, new_end, prev_start) ==
    IF floor_guard(new_end, prev_start)
    THEN [h EXCEPT ![prev].end = ms_to_time(new_end)]
    ELSE h

\* Mutant of close_gap: a short gap takes the whole minimum gap off the
\* earlier cue, not the shortfall.
close_gap_whole(h, prev, prev_end, curr_start, prev_start) ==
    IF curr_start - prev_end < 0
    THEN shorten(h, prev, curr_start - TIMING.gap_ms, prev_start)
    ELSE IF 0 < curr_start - prev_end
            /\ curr_start - prev_end < TIMING.gap_ms
    THEN shorten(h, prev, prev_end - TIMING.gap_ms, prev_start)
    ELSE h

\* The two branches of the loop body of fix_gaps, gap = curr_start -
\* prev_end and needed = TIMING['gap_ms'] - gap.
close_gap(h, prev, prev_end, curr_start, prev_start) ==
    IF curr_start - prev_end < 0
    THEN shorten(h, prev, curr_start - TIMING.gap_ms, prev_start)
    ELSE IF 0 < curr_start - prev_end
            /\ curr_start - prev_end < TIMING.gap_ms
    THEN shorten(h, prev,
                 prev_end - (TIMING.gap_ms - (curr_start - prev_end)),
                 prev_start)
    ELSE h

\* One iteration of the loop of fix_gaps, i the 1-based position of the
\* current cue (the source's i + 1).
fix_gap_at(h, list, i) ==
    close_gap(h, list[i - 1], time_to_ms(h[list[i - 1]].end),
              time_to_ms(h[list[i]].start), time_to_ms(h[list[i - 1]].start))

RECURSIVE fix_gaps_from(_, _, _)
fix_gaps_from(h, list, i) ==
    IF i > Len(list) THEN h
    ELSE fix_gaps_from(fix_gap_at(h, list, i), list, i + 1)

\* fix_gaps mutates the dicts of the list in place and returns the list.
fix_gaps(h, list) == fix_gaps_from(h, list, 2)

\* Mutant of dict_copy: the same dict, not a copy.
dict_copy_alias(h, e) == [heap |-> h, ref |-> e]

\* e.copy(): a new dict with the same items.
dict_copy(h, e) == [heap |-> Append(h, h[e]), ref |-> Len(h) + 1]

\* e['text'] = fix_line_breaks(e['text'], lang, cfg['max_chars'])
set_text(h, e, l, cfg) ==
    [heap |-> [h EXCEPT ![e].text =
                  fix_line_breaks(h[e].text, l, cfg.max_chars)],
     ref  |-> e]

\* fix_timing(e.copy()): c is the copy.
timed_copy(c) == [heap |-> fix_timing(c.heap, c.ref), ref |-> c.ref]

\* The body of the loops of fix_entries and clean_entries.
repaired(c, l, cfg) == set_text(c.heap, c.ref, l, cfg)

repair_copy(h, e, l, cfg) == repaired(timed_copy(dict_copy(h, e)), l, cfg)

RECURSIVE fix_loop(_, _, _, _, _)
fix_step(r, rest, l, cfg, fixed) ==
    fix_loop(r.heap, rest, l, cfg, Append(fixed, r.ref))

fix_loop(h, list, l, cfg, fixed) ==
    IF Len(list) = 0 THEN [heap |-> h, fixed |-> fixed]
    ELSE fix_step(repair_copy(h, list[1], l, cfg), Tail(list), l, cfg, fixed)

\* return fix_gaps(fixed)
fixed_gaps(r) == [heap |-> fix_gaps(r.heap, r.fixed), fixed |-> r.fixed]

fix_entries(h, list, l) ==
    fixed_gaps(fix_loop(h, list, l, config_for(l), <<>>))

----------------------------------------------------------------------------
(* Cleaner                                                                 *)

RECURSIVE clean_loop(_, _, _, _, _, _, _)
\* if not issues: cleaned.append(e_copy)
\* else: removed.append((e['index'], issues))
clean_sort(r, issues, index, rest, l, cfg, k, cleaned, removed) ==
    IF issues = <<>>
    THEN clean_loop(r.heap, rest, l, cfg, k, Append(cleaned, r.ref), removed)
    ELSE clean_loop(r.heap, rest, l, cfg, k, cleaned,
                    Append(removed, <<index, issues>>))

clean_step(r, index, rest, l, cfg, k, cleaned, removed) ==
    clean_sort(r, validate_entry(r.heap[r.ref], l, cfg, k), index, rest, l,
               cfg, k, cleaned, removed)

clean_loop(h, list, l, cfg, k, cleaned, removed) ==
    IF Len(list) = 0
    THEN [heap |-> h, cleaned |-> cleaned, removed |-> removed]
    ELSE clean_step(repair_copy(h, list[1], l, cfg), h[list[1]].index,
                    Tail(list), l, cfg, k, cleaned, removed)

\* Mutant of cleaned_gaps: the kept cues are returned as the loop left
\* them, without the fix_gaps pass.
cleaned_no_gaps(r) ==
    [heap |-> r.heap, cleaned |-> r.cleaned, removed |-> r.removed]

\* return fix_gaps(cleaned), removed
cleaned_gaps(r) ==
    [heap |-> fix_gaps(r.heap, r.cleaned), cleaned |-> r.cleaned,
     removed |-> r.removed]

clean_entries(h, list, l, k) ==
    cleaned_gaps(clean_loop(h, list, l, config_for(l), k, <<>>, <<>>))

\* The dicts a list refers to, in list order.
Deref(h, list) == [i \in 1..Len(list) |-> h[list[i]]]

----------------------------------------------------------------------------
(* Inputs of the engine: cue sequences as parse_srt returns them           *)

MaxCues == 3

Zh == "U4E2D"
Stop == "U3002"

\* "aa": one short line.
TextPlain == <<"a", "a">>
\* Two short lines, the first in markup: "<i>a</i>\na".
TextTwoLines == <<"<", "i", ">", "a", "<", "/", "i", ">", NL, "a">>
\* Three lines.
TextThreeLines == <<"a", NL, "a", NL, "a">>
\* One line of 10 characters, 20 columns wide in a CJK language, with a
\* punctuation mark after the fourth ideograph.
TextCjkLong == <<Zh, Zh, Zh, Zh, Stop, Zh, Zh, Zh, Zh, Zh>>
\* One line of 9 words of 4 letters: 44 characters.
TextWords ==
    join(SP, [i \in 1..9 |-> <<"a", "a", "a", "a">>])

\* What a cue is drawn from: <<gap, duration, text>>, gap = start - end of
\* the cue before it (not used for the first cue) and duration = end - start,
\* in ms.  The gaps are an overlap (-40), none (0), a short gap (40) and
\* exactly the minimum gap (83); the durations are negative, short, exactly
\* the minimum (833), 43 and 123 above it (what closing a short gap of 40 and
\* an overlap of 40 take away), ordinary (3000) and above the maximum.
CueChoices ==
    { <<-40, 956, TextPlain>>,
      <<40, 876, TextPlain>>,
      <<0, 833, TextPlain>>,
      <<83, 3000, TextTwoLines>>,
      <<-40, 3000, TextCjkLong>>,
      <<40, 500, TextThreeLines>>,
      <<83, 7001, TextPlain>>,
      <<0, -100, TextWords>>,
      <<40, 3000, TextWords>> }

\* The first cue starts just before the first hour is over.
FirstStart == 59 * 60000 + 58 * 1000

RECURSIVE BuildCues(_, _, _)
BuildCues(choice, i, prev_end) ==
    IF i > Len(choice) THEN <<>>
    ELSE LET start == IF i = 1 THEN FirstStart ELSE prev_end + choice[i][1]
             end   == start + choice[i][2]
         IN  <<[index |-> 10 * i, start |-> ms_to_time(start),
                end |-> ms_to_time(end), text |-> choice[i][3]]>>
             \o BuildCues(choice, i + 1, end)

\* <<--lang, --kids>>; "xx" is no key of LANG_CONFIG.
Modes == {<<"zh", TRUE>>, <<"zh", FALSE>>, <<"en", FALSE>>, <<"xx", TRUE>>}

Idle == <<>>

InitEngine ==
    /\ pc = "start"
    /\ \E n \in 0..MaxCues :
         \E choice \in [1..n -> CueChoices] :
            /\ input = BuildCues(choice, 1, 0)
    /\ heap = input
    /\ entries = [i \in 1..Len(input) |-> i]
    /\ \E m \in Modes : lang = m[1] /\ kids = m[2]
    /\ json_out = FALSE
    /\ out = Idle
    /\ ms = 0 /\ ts = Idle /\ back = 0
    /\ content = Idle /\ parsed = Idle

----------------------------------------------------------------------------
(* The commands of main, from the parsed entries on                         *)

validate_cmd(j) ==
    /\ pc = "start"
    /\ pc' = "validate"
    /\ json_out' = j
    /\ \E issues \in {validate(Deref(heap, entries), lang, kids)} :
           out' = [issues |-> issues,
                   exit_code |-> IF j THEN 0
                                 ELSE IF issues # <<>> THEN 1 ELSE 0]
    /\ UNCHANGED <<ms, ts, back, content, parsed, input, heap, entries,
                   lang, kids>>

fix_cmd ==
    /\ pc = "start"
    /\ pc' = "fix"
    /\ \E r \in {fix_entries(heap, entries, lang)} :
           /\ heap' = r.heap
           /\ out' = [fixed |-> r.fixed,
                      new_issues |->
                          validate(Deref(r.heap, r.fixed), lang, kids),
                      exit_code |-> 0]
    /\ UNCHANGED <<ms, ts, back, content, parsed, input, entries, lang, kids,
                   json_out>>

clean_cmd ==
    /\ pc = "start"
    /\ pc' = "clean"
    /\ \E r \in {clean_entries(heap, entries, lang, kids)} :
           /\ heap' = r.heap
           /\ out' = [cleaned |-> r.cleaned, removed |-> r.removed,
                      new_issues |->
                          validate(Deref(r.heap, r.cleaned), lang, kids),
                      exit_code |-> 0]
    /\ UNCHANGED <<ms, ts, back, content, parsed, input, entries, lang, kids,
                   json_out>>

\* fix_gaps called on the caller's own list.
fix_gaps_call ==
    /\ pc = "start"
    /\ pc' = "fix_gaps"
    /\ heap' = fix_gaps(heap, entries)
    /\ out' = [ret |-> entries]
    /\ UNCHANGED <<ms, ts, back, content, parsed, input, entries, lang, kids,
                   json_out>>

Next ==
    \/ fix_cmd
    \/ clean_cmd
    \/ fix_gaps_call

Spec == InitEngine /\ [][Next]_vars

NextValidate == \E j \in BOOLEAN : validate_cmd(j)

SpecValidate == InitEngine /\ [][NextValidate]_vars

----------------------------------------------------------------------------
(* Properties of the engine                                                *)

StartMs(e) == time_to_ms(e.start)
EndMs(e) == time_to_ms(e.end)

\* The cues a command returned, in order.
Returned(list) == Deref(heap, list)

\* C1: every cue clean_entries keeps (after its last fix_gaps pass) has an
\* empty issue list from validate_entry.
C1_CleanKeepsOnlyValid ==
    pc = "clean" =>
        \A i \in 1..Len(out.cleaned) :
            validate_entry(heap[out.cleaned[i]], lang, config_for(lang),
                           kids) = <<>>

\* C2: after fix_gaps, an adjacent pair whose gap was strictly between 0 and
\* 83 ms has a gap of exactly 83 ms, or its gap of before when the floor
\* guard refused the new end; this holds at the end of the pass, whatever
\* the later iterations did.
C2_ShortGapClosedOrKept ==
    pc = "fix_gaps" =>
        \A i \in 2..Len(entries) :
            LET gap0 == StartMs(input[i]) - EndMs(input[i - 1])
                gap1 == StartMs(heap[entries[i]])
                            - EndMs(heap[entries[i - 1]])
                new_end == EndMs(input[i - 1]) - (83 - gap0)
            IN  (0 < gap0 /\ gap0 < 83) =>
                    \/ gap1 = 83
                    \/ gap1 = gap0 /\ ~(new_end > StartMs(input[i - 1]) + 833)

\* C2's case: of three cues, the first pair's short gap was widened to 83 ms
\* and the next iteration then moved the second cue's end.
C2_Witness ==
    /\ pc = "fix_gaps"
    /\ Len(entries) = 3
    /\ StartMs(input[2]) - EndMs(input[1]) = 40
    /\ StartMs(heap[entries[2]]) - EndMs(heap[entries[1]]) = 83
    /\ heap[entries[2]].end # input[2].end

\* C3: in fix_gaps, for an overlap or a short positive gap, the earlier
\* cue's end becomes the candidate end (start of the later cue - 83 for an
\* overlap, its own end - (83 - gap) for a short gap) whenever that leaves
\* it at least 833 ms long, exactly 833 ms included, and stays as it was
\* otherwise.
C3_ShortenedDownToMinimum ==
    pc = "fix_gaps" =>
        \A i \in 2..Len(entries) :
            LET gap0 == StartMs(input[i]) - EndMs(input[i - 1])
                new_end == IF gap0 < 0 THEN StartMs(input[i]) - 83
                           ELSE EndMs(input[i - 1]) - (83 - gap0)
                end1 == EndMs(heap[entries[i - 1]])
            IN  (gap0 < 0 \/ (0 < gap0 /\ gap0 < 83)) =>
                    IF new_end - StartMs(input[i - 1]) >= 833
                    THEN end1 = new_end
                    ELSE end1 = EndMs(input[i - 1])

\* C4: validate exits non-zero exactly when validate() returned a violation,
\* whatever --lang, --kids and --json are.
C4_ExitCodeTellsViolations ==
    pc = "validate" => (out.exit_code # 0 <=> out.issues # <<>>)

\* C6: fix_entries and clean_entries leave the caller's list and its cues as
\* they were.
C6_InputUntouched ==
    pc \in {"fix", "clean"} =>
        /\ Len(entries) = Len(input)
        /\ \A i \in 1..Len(input) : heap[entries[i]] = input[i]

\* C6's case: fix_entries returned a cue with another end and a cue with
\* another text than the caller's, the first after fix_gaps shortened it.
C6_Witness ==
    /\ pc = "fix"
    /\ \E i \in 1..Len(input) :
          /\ EndMs(input[i]) - StartMs(input[i]) >= 833
          /\ heap[out.fixed[i]].end # input[i].end
    /\ \E i \in 1..Len(input) : heap[out.fixed[i]].text # input[i].text

\* C7: on a sequence validate() has nothing to say about, fix_entries
\* returns as many cues, each with the start, end and text it had.
C7_FixKeepsValidInput ==
    (pc = "fix" /\ validate(input, lang, kids) = <<>>) =>
        /\ Len(out.fixed) = Len(input)
        /\ \A i \in 1..Len(input) :
              /\ heap[out.fixed[i]].start = input[i].start
              /\ heap[out.fixed[i]].end = input[i].end
              /\ heap[out.fixed[i]].text = input[i].text

\* C7's case: three valid cues, one of two lines, one exactly 833 ms long
\* and right after its predecessor, one exactly 83 ms after it.
C7_Witness ==
    /\ pc = "fix"
    /\ validate(input, lang, kids) = <<>>
    /\ Len(input) = 3
    /\ \E i \in 1..3 : count(input[i].text, NL) = 1
    /\ \E i \in 2..3 : StartMs(input[i]) = EndMs(input[i - 1])
    /\ \E i \in 2..3 : StartMs(input[i]) - EndMs(input[i - 1]) = 83

\* A cue after timing and line-break repair on its own.
RepairedAlone(e) ==
    LET r == fix_entries(<<e>>, <<1>>, lang) IN r.heap[r.fixed[1]]

IssuesAfterRepair(e) ==
    validate_entry(RepairedAlone(e), lang, config_for(lang), kids)

Survives(e) == IssuesAfterRepair(e) = <<>>

Fails(e) == IssuesAfterRepair(e) # <<>>

\* C8: the cues clean_entries keeps are what fix_entries returns for the
\* input without the removed cues, and the removed list holds the index and
\* the (non-empty) issues of exactly the cues that fail validate_entry after
\* their own repair.
C8_CleanIsFixOfSurvivors ==
    pc = "clean" =>
        LET survivors == SelectSeq(input, Survives)
            failing   == SelectSeq(input, Fails)
            f == fix_entries(survivors, [i \in 1..Len(survivors) |-> i], lang)
        IN  /\ Returned(out.cleaned) = Deref(f.heap, f.fixed)
            /\ out.removed = [i \in 1..Len(failing) |->
                                <<failing[i].index,
                                  IssuesAfterRepair(failing[i])>>]
            /\ \A i \in 1..Len(out.removed) : out.removed[i][2] # <<>>

\* C8's case: of three cues the middle one is removed, and the first, long
\* enough as it came, is shortened against the third.
C8_Witness ==
    /\ pc = "clean"
    /\ Len(input) = 3
    /\ Len(out.cleaned) = 2
    /\ Len(out.removed) = 1
    /\ out.removed[1][1] = input[2].index
    /\ EndMs(input[1]) - StartMs(input[1]) >= 833
    /\ EndMs(heap[out.cleaned[1]]) = StartMs(input[3]) - 83
    /\ EndMs(heap[out.cleaned[1]]) < EndMs(input[1])

\* The end fix_timing gives a cue.
TimedEnd(e) ==
    IF EndMs(e) - StartMs(e) < 833 THEN StartMs(e) + 833 ELSE EndMs(e)

\* C9: every cue fix_entries returns is at least 833 ms long; it starts
\* where it started, the last cue ends where fix_timing put its end (start +
\* 833 when it was shorter than 833 ms, its own end otherwise), and no other
\* cue ends later than that.
C9_FixedAtLeastMinimum ==
    pc = "fix" =>
        /\ Len(out.fixed) = Len(input)
        /\ \A i \in 1..Len(input) :
              LET e == heap[out.fixed[i]]
              IN  /\ e.start = input[i].start
                  /\ EndMs(e) <= TimedEnd(input[i])
                  /\ i = Len(input) => EndMs(e) = TimedEnd(input[i])
                  /\ EndMs(e) - StartMs(e) >= 833

\* C9's case: a cue that ended before it started now lasts 833 ms, and a
\* cue fix_timing left alone was shortened by fix_gaps.
C9_Witness ==
    /\ pc = "fix"
    /\ \E i \in 1..Len(input) :
          /\ EndMs(input[i]) < StartMs(input[i])
          /\ EndMs(heap[out.fixed[i]]) = StartMs(input[i]) + 833
    /\ \E i \in 1..Len(input) :
          /\ EndMs(input[i]) - StartMs(input[i]) >= 833
          /\ EndMs(heap[out.fixed[i]]) < EndMs(input[i])

----------------------------------------------------------------------------
(* Time codec on its own                                                   *)

MaxHours == 100

\* Offsets up to MaxHours hours and a little more, with one, two and three
\* digits in every field, and negative ones.
TimeSamples ==
    { h * 3600000 + m * 60000 + s * 1000 + f :
        h \in 0..MaxHours, m \in {0, 9, 10, 59}, s \in {0, 9, 59},
        f \in {0, 9, 99, 100, 999} }
    \cup {-1, -833, -3600000}

InitTime ==
    /\ pc = "start"
    /\ ms \in TimeSamples
    /\ ts = Idle /\ back = 0
    /\ content = Idle /\ parsed = Idle
    /\ input = Idle /\ heap = Idle /\ entries = Idle
    /\ lang = "en" /\ kids = FALSE /\ json_out = FALSE /\ out = Idle

format_time ==
    /\ pc = "start"
    /\ pc' = "formatted"
    /\ ts' = ms_to_time(ms)
    /\ UNCHANGED <<ms, back, content, parsed, input, heap, entries, lang,
                   kids, json_out, out>>

parse_time ==
    /\ pc = "formatted"
    /\ pc' = "parsed"
    /\ back' = time_to_ms(ts)
    /\ UNCHANGED <<ms, ts, content, parsed, input, heap, entries, lang, kids,
                   json_out, out>>

NextTime == format_time \/ parse_time

SpecTime == InitTime /\ [][NextTime]_vars

\* C10: time_to_ms(ms_to_time(ms)) = ms for every ms >= 0, the hours never
\* wrapped, and ms_to_time(ms) is "00:00:00,000" for every ms < 0.
C10_TimeRoundTrip ==
    pc = "parsed" =>
        /\ ms >= 0 => back = ms
        /\ ms < 0 =>
              /\ ts = <<"0", "0", ":", "0", "0", ":", "0", "0", ",",
                        "0", "0", "0">>
              /\ back = 0

\* C10's case: an offset of 100 hours or more, with every field non-zero,
\* has gone through ms_to_time and back.
C10_Witness ==
    /\ pc = "parsed"
    /\ ms >= 100 * 3600000
    /\ (ms % 3600000) \div 60000 = 59
    /\ ms % 1000 = 999
    /\ Len(ts) = 13
    /\ back = ms

----------------------------------------------------------------------------
(* Parser                                                                  *)

\* re.split(r'\n\n+', s): s cut at every run of two or more line breaks.
RECURSIVE skip_newlines(_)
skip_newlines(s) ==
    IF Len(s) > 0 /\ s[1] = NL THEN skip_newlines(Tail(s)) ELSE s

\* The first position at or after from where two line breaks begin.
FindBlankLine(s, from) ==
    LET at == {k \in from..(Len(s) - 1) : s[k] = NL /\ s[k + 1] = NL}
    IN  IF at = {} THEN 0 ELSE Min(at)

RECURSIVE split_blocks(_)
split_blocks(s) ==
    LET k == FindBlankLine(s, 1)
    IN  IF k = 0 THEN <<s>>
        ELSE <<SubSeq(s, 1, k - 1)>>
                 \o split_blocks(skip_newlines(SubSeq(s, k, Len(s))))

\* \d{2}:\d{2}:\d{2},\d{3} at position p of s
timecode_at(s, p) ==
    /\ p + 11 <= Len(s)
    /\ \A k \in {0, 1, 3, 4, 6, 7, 9, 10, 11} : IsDigit(s[p + k])
    /\ s[p + 2] = ":" /\ s[p + 5] = ":" /\ s[p + 8] = ","

RECURSIVE skip_space(_, _)
skip_space(s, p) ==
    IF p <= Len(s) /\ s[p] \in Whitespace THEN skip_space(s, p + 1) ELSE p

\* re.match(r'(\d{2}:\d{2}:\d{2},\d{3})\s*-->\s*(\d{2}:\d{2}:\d{2},\d{3})', line)
match_timecodes(line) ==
    LET a == skip_space(line, 13)
        b == skip_space(line, a + 3)
    IN  IF /\ timecode_at(line, 1)
           /\ a + 2 <= Len(line)
           /\ SubSeq(line, a, a + 2) = <<"-", "-", ">">>
           /\ timecode_at(line, b)
        THEN [ok |-> TRUE, start |-> SubSeq(line, 1, 12),
              end |-> SubSeq(line, b, b + 11)]
        ELSE [ok |-> FALSE, start |-> <<>>, end |-> <<>>]

\* Whether int(s) returns: optional blanks around an optional sign and digits.
int_accepts(s) ==
    LET t == strip(s)
        d == IF Len(t) > 0 /\ t[1] \in {"+", "-"} THEN Tail(t) ELSE t
    IN  Len(d) > 0 /\ \A k \in 1..Len(d) : IsDigit(d[k])

signed_int(s) ==
    LET t == strip(s)
    IN  IF t[1] = "-" THEN 0 - int(Tail(t))
        ELSE IF t[1] = "+" THEN int(Tail(t))
        ELSE int(t)

\* The loop of parse_srt over the blocks; a ValueError of int(lines[0]) ends
\* it and parse_srt with it.
RECURSIVE parse_blocks(_, _)
parse_blocks(blocks, acc) ==
    IF Len(blocks) = 0 THEN [raised |-> FALSE, entries |-> acc]
    ELSE LET lines == split(strip(blocks[1]), NL)
             m == match_timecodes(lines[2])
         IN  IF Len(lines) < 3 THEN parse_blocks(Tail(blocks), acc)
             ELSE IF ~m.ok THEN parse_blocks(Tail(blocks), acc)
             ELSE IF ~int_accepts(lines[1])
             THEN [raised |-> TRUE, entries |-> <<>>]
             ELSE parse_blocks(Tail(blocks),
                      Append(acc, [index |-> signed_int(lines[1]),
                                   start |-> m.start, end |-> m.end,
                                   text |-> join(NL, SubSeq(lines, 3,
                                                            Len(lines)))]))

\* parse_srt from the text of the file on.
parse_srt(text) == parse_blocks(split_blocks(strip(text)), <<>>)

MaxLines == 7

LineOne == <<"1">>
LineWord == <<"x">>
LineBlank == <<>>
\* "00:00:01,000 --> 00:00:02,500"
LineTimes ==
    ms_to_time(1000) \o <<SP, "-", "-", ">", SP>> \o ms_to_time(2500)

LineChoices == {LineOne, LineWord, LineBlank, LineTimes}

InitParse ==
    /\ pc = "start"
    /\ \E n \in 0..MaxLines :
         \E lines \in [1..n -> LineChoices] : content = join(NL, lines)
    /\ parsed = Idle
    /\ ms = 0 /\ ts = Idle /\ back = 0
    /\ input = Idle /\ heap = Idle /\ entries = Idle
    /\ lang = "en" /\ kids = FALSE /\ json_out = FALSE /\ out = Idle

parse_file ==
    /\ pc = "start"
    /\ pc' = "parsed"
    /\ parsed' = parse_srt(content)
    /\ UNCHANGED <<ms, ts, back, content, input, heap, entries, lang, kids,
                   json_out, out>>

NextParse == parse_file

SpecParse == InitParse /\ [][NextParse]_vars

\* The blocks of the text that have at least 3 lines and a second line with
\* the timecode pair.
CueBlocks(text) ==
    LET HasCue(b) ==
            LET lines == split(strip(b), NL)
            IN  Len(lines) >= 3 /\ match_timecodes(lines[2]).ok
    IN  SelectSeq(split_blocks(strip(text)), HasCue)

\* C5: parse_srt never raises, and returns, in file order, one cue for each
\* block of at least 3 lines whose second line is a timecode pair, leaving
\* out those whose first line is no integer.
C5_ParseNeverRaises ==
    pc = "parsed" =>
        /\ ~parsed.raised
        /\ LET HasIndex(b) == int_accepts(split(strip(b), NL)[1])
               cues == SelectSeq(CueBlocks(content), HasIndex)
           IN  /\ Len(parsed.entries) = Len(cues)
               /\ \A i \in 1..Len(cues) :
                     LET lines == split(strip(cues[i]), NL)
                     IN  /\ parsed.entries[i].start
                               = match_timecodes(lines[2]).start
                         /\ parsed.entries[i].text
                               = join(NL, SubSeq(lines, 3, Len(lines)))

====
